---- MODULE Spec2Model ----
(***************************************************************************)
(* A model of gzip-up: the suffix validator, the task-file generator with  *)
(* its chunker, the local threaded executor, the Slurm script emitter and  *)
(* the command-line driver (src/src/gzip_up).                              *)
(*                                                                         *)
(* Strings are TLA+ strings handled character by character (Len, SubSeq,   *)
(* \o), so that suffix tests, command formatting and line splitting are    *)
(* computed as the Python code computes them.                              *)
(***************************************************************************)
EXTENDS Integers, Sequences, FiniteSets, TLC

(***************************************************************************)
(* Bounds of the model.                                                    *)
(***************************************************************************)
\* longest suffix list handed to validate_suffixes
MaxSuffixes == 3
\* longest file list handed to the task generator
MaxFiles == 4
\* largest job ceiling (--max-jobs) tried
MaxCeiling == 3
\* longest file list handed to the local executor
MaxExecFiles == 3
\* largest thread count (--threads) tried
MaxThreads == 2
\* most polls of the queue by the monitoring thread
MaxPolls == 2
\* longest file list handed to the Slurm emitter
MaxSlurmFiles == 3
\* most Slurm parameters supplied at once
MaxSlurmArgs == 2

(***************************************************************************)
(* Python string and integer primitives.                                   *)
(***************************************************************************)
\* an optional integer: None, or Some(n)
None == << >>
Some(n) == << n >>

startswith(s, prefix) ==
    /\ Len(s) >= Len(prefix)
    /\ SubSeq(s, 1, Len(prefix)) = prefix

endswith(s, suffix) ==
    /\ Len(s) >= Len(suffix)
    /\ SubSeq(s, Len(s) - Len(suffix) + 1, Len(s)) = suffix

\* str.strip() for the only whitespace of the alphabet, the blank
RECURSIVE lstrip(_)
lstrip(s) == IF Len(s) > 0 /\ SubSeq(s, 1, 1) = " " THEN lstrip(SubSeq(s, 2, Len(s))) ELSE s

RECURSIVE rstrip(_)
rstrip(s) == IF Len(s) > 0 /\ SubSeq(s, Len(s), Len(s)) = " " THEN rstrip(SubSeq(s, 1, Len(s) - 1)) ELSE s

strip(s) == rstrip(lstrip(s))

\* sep.join(parts)
RECURSIVE join(_, _)
join(sep, parts) ==
    IF Len(parts) = 0 THEN ""
    ELSE IF Len(parts) = 1 THEN parts[1]
    ELSE parts[1] \o sep \o join(sep, Tail(parts))

\* s.split(sep) for a non-empty separator: the pieces between the occurrences
\* of sep, scanning from the left
RECURSIVE splitFrom(_, _, _, _)
splitFrom(s, sep, start, i) ==
    IF i + Len(sep) - 1 > Len(s) THEN << SubSeq(s, start, Len(s)) >>
    ELSE IF SubSeq(s, i, i + Len(sep) - 1) = sep
         THEN << SubSeq(s, start, i - 1) >> \o splitFrom(s, sep, i + Len(sep), i + Len(sep))
         ELSE splitFrom(s, sep, start, i + 1)

split(s, sep) == splitFrom(s, sep, 1, 1)

\* a // b of Python: the floor of the quotient, for either sign of b /= 0
PyFloorDiv(a, b) ==
    IF b > 0 THEN a \div b
    ELSE LET q == (-a) \div (-b) IN q

PyMax(a, b) == IF a >= b THEN a ELSE b
PyMin(a, b) == IF a <= b THEN a ELSE b

\* the characters of the alphabet in the order of their code points
CodePoints == " #%'-./0123456789:;ABCDEFGHIJKLMNOPQRSTUVWXYZ_abcdefghijklmnopqrstuvwxyz"

\* ord(c), up to an order-preserving renumbering
ord(c) == CHOOSE i \in 1..Len(CodePoints) : SubSeq(CodePoints, i, i) = c

\* a < b for two strings, as Python compares them
RECURSIVE StrLess(_, _)
StrLess(a, b) ==
    IF Len(b) = 0 THEN FALSE
    ELSE IF Len(a) = 0 THEN TRUE
    ELSE IF SubSeq(a, 1, 1) = SubSeq(b, 1, 1)
         THEN StrLess(SubSeq(a, 2, Len(a)), SubSeq(b, 2, Len(b)))
         ELSE ord(SubSeq(a, 1, 1)) < ord(SubSeq(b, 1, 1))

\* sorted(S) for a collection of distinct strings
RECURSIVE sorted(_)
sorted(S) ==
    IF S = {} THEN << >>
    ELSE LET least == CHOOSE x \in S : \A y \in S : x = y \/ StrLess(x, y)
         IN  << least >> \o sorted(S \ { least })

LowerCase == "abcdefghijklmnopqrstuvwxyz"
UpperCase == "ABCDEFGHIJKLMNOPQRSTUVWXYZ"

upper_char(c) ==
    IF \E i \in 1..Len(LowerCase) : SubSeq(LowerCase, i, i) = c
    THEN LET i == CHOOSE i \in 1..Len(LowerCase) : SubSeq(LowerCase, i, i) = c
         IN  SubSeq(UpperCase, i, i)
    ELSE c

lower_char(c) ==
    IF \E i \in 1..Len(UpperCase) : SubSeq(UpperCase, i, i) = c
    THEN LET i == CHOOSE i \in 1..Len(UpperCase) : SubSeq(UpperCase, i, i) = c
         IN  SubSeq(LowerCase, i, i)
    ELSE c

\* s.lower()
RECURSIVE lower(_)
lower(s) == IF Len(s) = 0 THEN "" ELSE lower_char(SubSeq(s, 1, 1)) \o lower(SubSeq(s, 2, Len(s)))

\* s.upper()
RECURSIVE upper(_)
upper(s) == IF Len(s) = 0 THEN "" ELSE upper_char(SubSeq(s, 1, 1)) \o upper(SubSeq(s, 2, Len(s)))

\* c in s, for a character c
contains(s, c) == \E i \in 1..Len(s) : SubSeq(s, i, i) = c

\* s.replace(c, ''), for a character c
RECURSIVE remove_char(_, _)
remove_char(s, c) ==
    IF Len(s) = 0 THEN ""
    ELSE (IF SubSeq(s, 1, 1) = c THEN "" ELSE SubSeq(s, 1, 1)) \o remove_char(SubSeq(s, 2, Len(s)), c)

Digits == "0123456789"

IsDigits(s) == Len(s) > 0 /\ \A i \in 1..Len(s) : contains(Digits, SubSeq(s, i, i))

\* int(s) and float(s) of a string of digits
RECURSIVE ParseNat(_)
ParseNat(s) ==
    IF Len(s) = 0 THEN 0
    ELSE 10 * ParseNat(SubSeq(s, 1, Len(s) - 1))
         + (CHOOSE d \in 0..9 : SubSeq(Digits, d + 1, d + 1) = SubSeq(s, Len(s), Len(s)))

\* str(n) for a natural number
RECURSIVE FormatNat(_)
FormatNat(n) ==
    IF n < 10 THEN SubSeq(Digits, n + 1, n + 1)
    ELSE FormatNat(n \div 10) \o SubSeq(Digits, (n % 10) + 1, (n % 10) + 1)

\* the elements of a sequence
Range(seq) == { seq[i] : i \in 1..Len(seq) }

\* the subsequence of the elements satisfying Keep, in order
RECURSIVE SelectFrom(_, _)
SelectFrom(seq, keep) ==
    IF Len(seq) = 0 THEN << >>
    ELSE (IF seq[1] \in keep THEN << seq[1] >> ELSE << >>) \o SelectFrom(Tail(seq), keep)

RECURSIVE SumSeq(_)
SumSeq(seq) == IF Len(seq) = 0 THEN 0 ELSE seq[1] + SumSeq(Tail(seq))

\* all sequences over S of length at most n
SeqsUpTo(S, n) == UNION { [1..k -> S] : k \in 0..n }

(***************************************************************************)
(* validate_suffixes                                                       *)
(***************************************************************************)
\* a format set that lost its last entry
compression_formats_short == { ".gz", ".bz2", ".xz", ".zip", ".tar", ".7z" }

compression_formats == { ".gz", ".bz2", ".xz", ".zip", ".tar", ".7z", ".rar" }

\* a normalization that leaves the suffix as given
normalize_suffix_asis(suffix) == suffix

normalize_suffix(suffix) ==
    IF ~ startswith(suffix, ".") THEN "." \o suffix ELSE suffix

\* the loop of validate_suffixes from position i on, with the set built so far;
\* raised names the ValueError ("none" when the function returns)
RECURSIVE validate_loop(_, _, _)
validate_loop(suffixes, i, normalized_suffixes) ==
    IF i > Len(suffixes)
    THEN [ raised |-> "none", value |-> normalized_suffixes ]
    ELSE LET normalized_suffix == normalize_suffix(suffixes[i]) IN
         IF normalized_suffix = ".gz"
         THEN [ raised |-> "already_gz", value |-> {} ]
         ELSE IF normalized_suffix \in compression_formats
         THEN [ raised |-> "already_compressed", value |-> {} ]
         ELSE validate_loop(suffixes, i + 1, normalized_suffixes \cup { normalized_suffix })

validate_suffixes(suffixes) == validate_loop(suffixes, 1, {})

(***************************************************************************)
(* Paths and the filesystem.  The working directory is the root, so that   *)
(* os.path.abspath(name) is "/" followed by the name.  disk is the set of  *)
(* absolute paths that exist.                                              *)
(***************************************************************************)
Cwd == "/"

\* os.path.join(a, b) for a relative b
path_join(a, b) == IF endswith(a, "/") THEN a \o b ELSE a \o "/" \o b

\* the components of a path that os.path.normpath keeps
RECURSIVE norm_components(_, _, _)
norm_components(comps, i, acc) ==
    IF i > Len(comps) THEN acc
    ELSE IF comps[i] \in { "", "." } THEN norm_components(comps, i + 1, acc)
    ELSE IF comps[i] = ".."
         THEN norm_components(comps, i + 1,
                              IF Len(acc) = 0 THEN acc ELSE SubSeq(acc, 1, Len(acc) - 1))
         ELSE norm_components(comps, i + 1, Append(acc, comps[i]))

\* os.path.normpath(p) for an absolute p
normpath(p) == "/" \o join("/", norm_components(split(p, "/"), 1, << >>))

\* os.path.abspath(p)
abspath(p) == normpath(IF startswith(p, "/") THEN p ELSE path_join(Cwd, p))

\* a test that takes every path for a directory
isdir_always(p, d) == TRUE

\* os.path.isdir(p): the root, or a directory that holds a file
isdir(p, d) ==
    \/ abspath(p) = "/"
    \/ \E f \in d : startswith(f, abspath(p) \o "/")

\* the last component of a path
basename(p) == LET comps == split(p, "/") IN comps[Len(comps)]

(***************************************************************************)
(* find_files_with_suffixes                                                *)
(***************************************************************************)
\* the files os.walk(directory) reaches, each as os.path.join(root, file)
\* gives it: the directory as given, then the path below it
walked(directory, d) ==
    LET top == abspath(directory)
        prefix == IF top = "/" THEN "/" ELSE top \o "/"
    IN  { path_join(directory, SubSeq(f, Len(prefix) + 1, Len(f))) :
            f \in { g \in d : startswith(g, prefix) } }

\* the scan without os.walk's descent: the files of the directory itself
find_files_toplevel(directory, suffixes, d) ==
    sorted({ file_path \in walked(directory, d) :
               /\ \E suffix \in suffixes : endswith(basename(file_path), suffix)
               /\ file_path = path_join(directory, basename(file_path)) })

\* find_files_with_suffixes(directory, suffixes) on the filesystem d
find_files_with_suffixes(directory, suffixes, d) ==
    sorted({ file_path \in walked(directory, d) :
               \E suffix \in suffixes : endswith(basename(file_path), suffix) })

\* what may happen inside the try block of lines 32-50
WalkOutcomes == { "completes", "raises" }

\* lines 51-54: the sorted list, or the empty list from the except clause
scan_result(directory, suffixes, d, outcome) ==
    IF outcome = "raises" THEN << >>
    ELSE find_files_with_suffixes(directory, suffixes, d)

\* os.path.exists(p) on the filesystem d; the empty path does not exist
path_exists(p, d) == p # "" /\ abspath(p) \in d

(***************************************************************************)
(* generate_task_file and generate_chunked_task_file                       *)
(***************************************************************************)
\* the "Safety limit" of the retry loop
MaxIterations == 100

gzip_cmd(file_path) == "gzip '" \o file_path \o "'"

gz_counterpart(file_path) == file_path \o ".gz"

NoSkips == [ lines |-> << >>, skipped_messages |-> << >>,
             skipped_already_compressed_count |-> 0,
             skipped_existing_gz_count |-> 0 ]

\* len(chunk_commands) of every chunk written so far, beside what NoSkips holds
NoChunks == [ lines |-> << >>, sizes |-> << >>, skipped_messages |-> << >>,
              skipped_already_compressed_count |-> 0,
              skipped_existing_gz_count |-> 0 ]

skip_message(file_path) ==
    "file " \o file_path \o " skipped because " \o gz_counterpart(file_path) \o " already exists"

\* a loop that forgets the counterpart test
RECURSIVE task_loop_nocounterpart(_, _, _, _)
task_loop_nocounterpart(files, i, d, acc) ==
    IF i > Len(files) THEN acc
    ELSE IF endswith(files[i], ".gz")
         THEN task_loop_nocounterpart(files, i + 1, d,
                [ acc EXCEPT !.skipped_already_compressed_count = @ + 1 ])
         ELSE task_loop_nocounterpart(files, i + 1, d,
                [ acc EXCEPT !.lines = Append(@, gzip_cmd(files[i])) ])

\* the loop of generate_task_file over files[i..], on the filesystem d as it
\* is once the task file has been opened; acc holds what was written so far
RECURSIVE task_loop(_, _, _, _)
task_loop(files, i, d, acc) ==
    IF i > Len(files) THEN acc
    ELSE LET file_path == files[i] IN
         IF endswith(file_path, ".gz")
         THEN task_loop(files, i + 1, d,
                [ acc EXCEPT !.skipped_already_compressed_count = @ + 1 ])
         ELSE IF path_exists(gz_counterpart(file_path), d)
         THEN task_loop(files, i + 1, d,
                [ acc EXCEPT !.skipped_existing_gz_count = @ + 1,
                             !.skipped_messages = Append(@, skip_message(file_path)) ])
         ELSE task_loop(files, i + 1, d,
                [ acc EXCEPT !.lines = Append(@, gzip_cmd(file_path)) ])

\* the while loop that raises commands_per_job until the job count fits
RECURSIVE chunk_retry(_, _, _, _, _)
chunk_retry(total_files, max_jobs, commands_per_job, actual_jobs, iterations) ==
    IF actual_jobs > max_jobs /\ iterations < MaxIterations
    THEN chunk_retry(total_files, max_jobs, commands_per_job + 1,
                     PyFloorDiv(total_files + (commands_per_job + 1) - 1, commands_per_job + 1),
                     iterations + 1)
    ELSE [ commands_per_job |-> commands_per_job, actual_jobs |-> actual_jobs,
           iterations |-> iterations ]

\* a calculation that never groups commands
chunk_calc_single(total_files, max_jobs) ==
    [ commands_per_job |-> 1, iterations |-> 0,
      actual_jobs |-> PyMin(max_jobs, total_files) ]

\* commands_per_job and actual_jobs for total_files and max_jobs
chunk_calc(total_files, max_jobs) ==
    LET cpj0 == PyMax(1, PyFloorDiv(total_files + max_jobs - 1, max_jobs))
        jobs0 == PyFloorDiv(total_files + cpj0 - 1, cpj0)
        r == chunk_retry(total_files, max_jobs, cpj0, jobs0, 0)
    IN  [ commands_per_job |-> r.commands_per_job,
          iterations |-> r.iterations,
          actual_jobs |-> PyMin(max_jobs,
                PyFloorDiv(total_files + r.commands_per_job - 1, r.commands_per_job)) ]

\* the commands of one chunk and the skips met in it (lines 122-138)
chunk_commands(chunk, d) == task_loop(chunk, 1, d, NoSkips)

\* a slice taken back to front
chunk_at_reversed(files, i, commands_per_job) ==
    LET last == PyMin(Len(files), i + commands_per_job) IN
    [ k \in 1..(last - i) |-> files[last + 1 - k] ]

\* files[i:i + commands_per_job], i counted from 0 as in Python
chunk_at(files, i, commands_per_job) ==
    SubSeq(files, i + 1, PyMin(Len(files), i + commands_per_job))

\* the loop "for i in range(0, total_files, commands_per_job)" from offset i;
\* a chunk is written as one line only if it holds a command
RECURSIVE chunk_loop(_, _, _, _, _)
chunk_loop(files, i, commands_per_job, d, acc) ==
    IF i >= Len(files) THEN acc
    ELSE LET c == chunk_commands(chunk_at(files, i, commands_per_job), d) IN
         chunk_loop(files, i + commands_per_job, commands_per_job, d,
            [ lines |-> IF Len(c.lines) > 0
                        THEN Append(acc.lines, join("; ", c.lines))
                        ELSE acc.lines,
              sizes |-> IF Len(c.lines) > 0
                        THEN Append(acc.sizes, Len(c.lines))
                        ELSE acc.sizes,
              skipped_messages |-> acc.skipped_messages \o c.skipped_messages,
              skipped_already_compressed_count |->
                  acc.skipped_already_compressed_count + c.skipped_already_compressed_count,
              skipped_existing_gz_count |->
                  acc.skipped_existing_gz_count + c.skipped_existing_gz_count ])

skipped_log_path(task_file_path) == task_file_path \o ".skipped.log"

\* a writer that opens the skip log whether or not there is a message
write_artifacts_alwayslog(fs, task_file_path, lines, skipped_messages) ==
    [ disk |-> fs.disk \cup { task_file_path, task_file_path \o ".skipped.log" },
      task |-> lines,
      log |-> skipped_messages,
      task_opens |-> fs.task_opens + 1,
      log_opens |-> fs.log_opens + 1 ]

\* A filesystem state: the existing paths, the lines of the task file and of
\* the skip log, and how often each was opened for writing.
\* write_artifacts: the task file opened and written with lines, then the
\* skip log written if there were messages
write_artifacts(fs, task_file_path, lines, skipped_messages) ==
    [ disk |-> fs.disk \cup { task_file_path }
               \cup (IF Len(skipped_messages) > 0
                     THEN { skipped_log_path(task_file_path) } ELSE {}),
      task |-> lines,
      log |-> IF Len(skipped_messages) > 0 THEN skipped_messages ELSE fs.log,
      task_opens |-> fs.task_opens + 1,
      log_opens |-> fs.log_opens + (IF Len(skipped_messages) > 0 THEN 1 ELSE 0) ]

\* generate_chunked_task_file(files, output_file, max_jobs) on filesystem fs:
\* the filesystem it leaves and the pair it returns
generate_chunked_task_file(files, output_file, max_jobs, fs) ==
    LET task_file_path == abspath(output_file)
        calc == chunk_calc(Len(files), max_jobs)
    IN  IF calc.actual_jobs > max_jobs
        THEN [ fs |-> fs, sizes |-> << >>,
               actual_jobs |-> calc.actual_jobs, commands_per_job |-> 0,
               commands_written |-> 0, iterations |-> calc.iterations,
               skipped_already_compressed_count |-> 0,
               skipped_existing_gz_count |-> 0 ]
        ELSE LET w == chunk_loop(files, 0, calc.commands_per_job,
                                 fs.disk \cup { task_file_path }, NoChunks)
             IN  [ fs |-> write_artifacts(fs, task_file_path, w.lines, w.skipped_messages),
                   sizes |-> w.sizes,
                   actual_jobs |-> calc.actual_jobs,
                   commands_per_job |-> calc.commands_per_job,
                   commands_written |-> Len(w.lines),
                   iterations |-> calc.iterations,
                   skipped_already_compressed_count |-> w.skipped_already_compressed_count,
                   skipped_existing_gz_count |-> w.skipped_existing_gz_count ]

\* "if max_jobs and len(files) > max_jobs"
wants_chunking(files, max_jobs) ==
    /\ max_jobs # None
    /\ max_jobs[1] # 0
    /\ Len(files) > max_jobs[1]

\* what a run without chunking reports: one command on each of n lines
NoChunk(n) == [ chunked |-> FALSE, actual_jobs |-> 0, commands_per_job |-> 1,
                commands_written |-> n, iterations |-> 0,
                sizes |-> [ k \in 1..n |-> 1 ] ]

\* the two skip counters of the pass that wrote the task file last
skip_counts(r) ==
    [ skipped_already_compressed_count |-> r.skipped_already_compressed_count,
      skipped_existing_gz_count |-> r.skipped_existing_gz_count ]

NoCounts == [ skipped_already_compressed_count |-> 0, skipped_existing_gz_count |-> 0 ]

\* generate_task_file(files, output_file, auto_run, max_jobs) on filesystem
\* fs: the standard file is written first; with a ceiling that the list
\* exceeds the chunked file then replaces it; a chunked result of 0 falls
\* back to the standard file
RECURSIVE generate_task_file(_, _, _, _)
generate_task_file(files, output_file, max_jobs, fs) ==
    LET task_file_path == abspath(output_file)
        std == task_loop(files, 1, fs.disk \cup { task_file_path }, NoSkips)
        fs1 == write_artifacts(fs, task_file_path, std.lines, std.skipped_messages)
    IN  IF wants_chunking(files, max_jobs)
        THEN LET c == generate_chunked_task_file(files, task_file_path, max_jobs[1], fs1) IN
             IF c.actual_jobs = 0 \/ c.commands_per_job = 0
             THEN generate_task_file(files, output_file, None, c.fs)
             ELSE [ fs |-> c.fs, path |-> task_file_path, counts |-> skip_counts(c),
                    chunk |-> [ chunked |-> TRUE, actual_jobs |-> c.actual_jobs,
                                commands_per_job |-> c.commands_per_job,
                                commands_written |-> c.commands_written,
                                iterations |-> c.iterations,
                                sizes |-> c.sizes ] ]
        ELSE [ fs |-> fs1, path |-> task_file_path, counts |-> skip_counts(std),
               chunk |-> NoChunk(Len(std.lines)) ]

\* "sum(1 for line in f if line.strip() and not line.strip().startswith('#'))"
count_commands(lines) ==
    Cardinality({ i \in 1..Len(lines) :
                    strip(lines[i]) # "" /\ ~ startswith(strip(lines[i]), "#") })

(***************************************************************************)
(* execute_gzip_local: the sequential parts.                               *)
(***************************************************************************)
\* the cap on auto-detected threads
AutoThreadCap == 8

\* a thread count taken as given
resolve_threads_asgiven(num_threads, cpu_count) == num_threads

\* num_threads as resolved from the argument and multiprocessing.cpu_count()
resolve_threads(num_threads, cpu_count) ==
    LET auto == IF num_threads = 0 THEN PyMin(cpu_count, AutoThreadCap) ELSE num_threads
    IN  IF auto < 1 THEN 1 ELSE auto

\* a filter that loses the last file of the list
uncompressed_but_last(files) ==
    SelectFrom(SubSeq(files, 1, Len(files) - 1),
               { f \in Range(files) : ~ endswith(f, ".gz") })

\* [f for f in files if not f.endswith('.gz')]
uncompressed_of(files) == SelectFrom(files, { f \in Range(files) : ~ endswith(f, ".gz") })

\* a count of skipped files that is never taken
skipped_count_zero(files) == 0

\* skipped_count = len(files) - len(uncompressed_files)
skipped_count(files) == Len(files) - Len(uncompressed_of(files))

\* the results dictionary before any task is merged
initial_results(files) ==
    [ total |-> Len(files), compressed |-> 0, skipped |-> skipped_count(files),
      errors |-> 0, error_files |-> << >> ]

\* what subprocess.run(['gzip', file_path], check=True) may do
GzipOutcomes == { "ok", "CalledProcessError", "FileNotFoundError" }

\* a worker whose handlers catch CalledProcessError only
compress_file_returns_uncaught(file_path, outcome) ==
    IF outcome = "ok" THEN [ raised |-> FALSE, file_path |-> file_path, success |-> TRUE ]
    ELSE IF outcome = "CalledProcessError"
    THEN [ raised |-> FALSE, file_path |-> file_path, success |-> FALSE ]
    ELSE [ raised |-> TRUE, file_path |-> file_path, success |-> FALSE ]

\* what compress_file hands to its future for an outcome of gzip: the try
\* branch, the CalledProcessError handler, the handler of any other Exception
compress_file_returns(file_path, outcome) ==
    IF outcome = "ok" THEN [ raised |-> FALSE, file_path |-> file_path, success |-> TRUE ]
    ELSE IF outcome = "CalledProcessError"
    THEN [ raised |-> FALSE, file_path |-> file_path, success |-> FALSE ]
    ELSE [ raised |-> FALSE, file_path |-> file_path, success |-> FALSE ]

\* the body of the as_completed loop for one future's result; of the pair
\* (file_path, error) appended to error_files the path is kept
merge_result(results, r) ==
    IF r.success
    THEN [ results EXCEPT !.compressed = @ + 1 ]
    ELSE [ results EXCEPT !.errors = @ + 1,
                          !.error_files = Append(@, r.file_path) ]

(***************************************************************************)
(* generate_slurm_script.  slurm_args is the dictionary in the order of its *)
(* insertion, a sequence of << key, value >> with distinct keys and no None *)
(* value.                                                                  *)
(***************************************************************************)
script_path == "gzip_slurm.sh"

SlurmDefaults ==
    [ job_name |-> "gzip_compression",
      ntasks |-> "1",
      cpus_per_task |-> "4",
      mem_per_cpu |-> "2G",
      partition |-> "short",
      time |-> "02:00:00",
      output |-> "gzip_%A_%a.out",
      error |-> "gzip_%A_%a.err" ]

\* f"{max(floor, float(number) // int(defaults['cpus_per_task']))}{unit}"
\* stored as mem_per_cpu: float() and int() raise ValueError on what is not a
\* number, // raises on 0 CPUs, and a quotient above the floor is a float
mem_per_cpu_from(defaults, number, floor, unit) ==
    IF ~ IsDigits(number) \/ ~ IsDigits(defaults.cpus_per_task)
    THEN [ raised |-> "ValueError", defaults |-> defaults ]
    ELSE IF ParseNat(defaults.cpus_per_task) = 0
    THEN [ raised |-> "ZeroDivisionError", defaults |-> defaults ]
    ELSE LET q == PyFloorDiv(ParseNat(number), ParseNat(defaults.cpus_per_task))
             shown == IF q > floor THEN FormatNat(q) \o ".0" ELSE FormatNat(floor)
         IN  [ raised |-> "none",
               defaults |-> [ defaults EXCEPT !.mem_per_cpu = shown \o unit ] ]

\* the body of the override loop for one item of slurm_args
override(defaults, key, value) ==
    IF key = "mem"
    THEN IF contains(upper(value), "G")
         THEN mem_per_cpu_from(defaults, remove_char(upper(value), "G"), 1, "G")
         ELSE IF contains(upper(value), "M")
         THEN mem_per_cpu_from(defaults, remove_char(upper(value), "M"), 1024, "M")
         ELSE [ raised |-> "none", defaults |-> defaults ]
    ELSE IF key = "output_log"
    THEN [ raised |-> "none", defaults |-> [ defaults EXCEPT !.output = value ] ]
    ELSE IF key = "error_log"
    THEN [ raised |-> "none", defaults |-> [ defaults EXCEPT !.error = value ] ]
    ELSE [ raised |-> "none", defaults |-> (key :> value) @@ defaults ]

RECURSIVE override_loop(_, _, _)
override_loop(slurm_args, i, defaults) ==
    IF i > Len(slurm_args) THEN [ raised |-> "none", defaults |-> defaults ]
    ELSE LET o == override(defaults, slurm_args[i][1], slurm_args[i][2]) IN
         IF o.raised # "none" THEN o
         ELSE override_loop(slurm_args, i + 1, o.defaults)

\* slurm_args.get(key, default)
RECURSIVE dict_get(_, _, _)
dict_get(slurm_args, key, default) ==
    IF Len(slurm_args) = 0 THEN default
    ELSE IF slurm_args[1][1] = key THEN slurm_args[1][2]
    ELSE dict_get(Tail(slurm_args), key, default)

\* array_size = len([f for f in files if not f.endswith('.gz')])
array_size_of(files) ==
    Len(SelectFrom(files, { f \in Range(files) : ~ endswith(f, ".gz") }))

\* gzip_slurm.sh: how often it was written, and what the last writing put
\* into its directives and its task_file assignment
NoScript ==
    [ opens |-> 0, job_name |-> "", ntasks |-> "", cpus_per_task |-> "",
      mem_per_cpu |-> "", array |-> "", partition |-> "", time |-> "",
      output |-> "", error |-> "", task_file |-> "", executable |-> FALSE ]

NotEmitted == [ raised |-> "pending", script_path |-> "" ]

\* generate_slurm_script(files, slurm_args) on filesystem fs holding script.
\* The scan of the task file for ';' (lines 71-86) chooses between two
\* messages and nothing else.
generate_slurm_script(files, slurm_args, fs, script) ==
    LET o == override_loop(slurm_args, 1, SlurmDefaults)
        defaults == o.defaults
        array_size == array_size_of(files)
    IN  IF o.raised # "none"
        THEN [ raised |-> o.raised, script_path |-> "", fs |-> fs, script |-> script ]
        ELSE IF array_size = 0
        THEN [ raised |-> "none", script_path |-> "", fs |-> fs, script |-> script ]
        ELSE [ raised |-> "none",
               script_path |-> script_path,
               fs |-> [ fs EXCEPT !.disk = @ \cup { abspath(script_path) } ],
               script |-> [ opens |-> script.opens + 1,
                            job_name |-> defaults.job_name,
                            ntasks |-> defaults.ntasks,
                            cpus_per_task |-> defaults.cpus_per_task,
                            mem_per_cpu |-> defaults.mem_per_cpu,
                            array |-> "1-" \o FormatNat(array_size),
                            partition |-> defaults.partition,
                            time |-> defaults.time,
                            output |-> defaults.output,
                            error |-> defaults.error,
                            task_file |-> dict_get(slurm_args, "output", "gzip.cmds"),
                            executable |-> TRUE ] ]

(***************************************************************************)
(* main: its decisions.                                                    *)
(***************************************************************************)
\* a collision check that lets every run pass
output_collides_unchecked(output, slurm, d) == FALSE

\* the two checks "Output file already exists" and "SLURM script already
\* exists"
output_collides(output, slurm, d) ==
    \/ path_exists(output, d)
    \/ slurm /\ path_exists(script_path, d)

\* the file count above which --auto-run chunks, and the ceiling it then uses
AutoChunkThreshold == 1000

\* max_jobs_for_chunking when use_chunking, None otherwise
max_jobs_for_chunking(args_max_jobs, auto_run, no_chunk, files) ==
    IF args_max_jobs # None /\ args_max_jobs[1] # 0 /\ Len(files) > args_max_jobs[1]
    THEN args_max_jobs
    ELSE IF auto_run /\ Len(files) > AutoChunkThreshold /\ ~ no_chunk
    THEN Some(AutoChunkThreshold)
    ELSE None

\* "response in ['yes', 'y']" for response = input(...).lower().strip()
confirms(answer) == strip(lower(answer)) \in { "yes", "y" }

\* the parameters generate_slurm_script declares, and the arguments main
\* calls it with
SlurmScriptParameters == 2
SlurmScriptArguments == 3

(***************************************************************************)
(* State.                                                                  *)
(***************************************************************************)
VARIABLES
    pc,             \* where the run stands
    suffixes,       \* the suffix list given (args.suffixes)
    validated,      \* what validate_suffixes returned or raised
    files,          \* the file list handed to the generator and the executor
    output_file,    \* the task file name (args.output)
    max_jobs,       \* the ceiling handed to generate_task_file, or None
    fs,             \* the filesystem
    gen,            \* what generate_task_file returned
    threads,        \* the thread count given (args.threads)
    exec_pc,        \* where the thread calling execute_gzip_local stands
    num_threads,    \* the resolved size of the pool
    uncompressed_files, \* the files dispatched
    task,           \* per dispatched file: its task in the pool and its future
    completed_count,    \* the progress counter shared by the workers
    completed_lock,     \* 0, or the task whose worker holds the lock
    results,        \* the results dictionary
    slurm_args,     \* the Slurm parameters supplied
    script,         \* gzip_slurm.sh
    emitted,        \* what generate_slurm_script returned or raised
    args,           \* the remaining command line arguments of main
    exit_code,      \* the exit code of the process, once it has ended
    command_count,  \* the commands main counted in the task file
    fs0,            \* the filesystem when the run started
    response,       \* the answer read at the confirmation prompt of main
    run_pc,         \* where the thread calling run_on_slurm stands
    child,          \* the srun child process
    monitor,        \* the thread running monitor_progress
    run_result      \* what run_on_slurm returned, and the message it reported

validateVars == << suffixes, validated >>
taskVars == << files, output_file, max_jobs, fs, gen >>
execVars == << threads, exec_pc, num_threads, uncompressed_files, task,
               completed_count, completed_lock, results >>

slurmVars == << slurm_args, script, emitted >>
cliVars == << args, exit_code, command_count, fs0 >>
submitVars == << response, run_pc, child, monitor, run_result >>

vars == << pc, validateVars, taskVars, execVars, slurmVars, cliVars, submitVars >>

NotValidated == [ raised |-> "pending", value |-> {} ]
NotGenerated == [ path |-> "", counts |-> NoCounts, chunk |-> NoChunk(0) ]

\* the content of a file that was there before the run
OldContent == << "old" >>

\* a filesystem holding the paths d and nothing written by the program
FreshFs(d, out) ==
    [ disk |-> d,
      task |-> IF abspath(out) \in d THEN OldContent ELSE << >>,
      log |-> << >>,
      task_opens |-> 0,
      log_opens |-> 0 ]

(***************************************************************************)
(* The inputs tried.                                                       *)
(***************************************************************************)
SuffixUniverse ==
    { "txt", ".txt", "", ".tar.gz",
      "gz", ".gz", "bz2", ".bz2", "xz", ".xz", "zip", ".zip",
      "tar", ".tar", "7z", ".7z", "rar", ".rar" }

\* file paths, among them one already compressed, which is also the
\* counterpart of /b, and one whose name holds the separator of chunked lines
PathUniverse == { "/a", "/b", "/b.gz", "/c; d", "/f" }

\* paths that may exist beside the listed files, which all exist: the .gz
\* counterparts
CounterpartUniverse == { "/a.gz", "/b.gz" }

\* lists of distinct paths
FileLists ==
    { l \in SeqsUpTo(PathUniverse, MaxFiles) :
        \A i, j \in 1..Len(l) : i # j => l[i] # l[j] }

\* task file names: a plain one, and one that is the counterpart of /a
OutputNames == { "gzip.cmds", "a.gz" }

Ceilings == { None } \cup { Some(n) : n \in -1..MaxCeiling }

(***************************************************************************)
(* Specification of validate_suffixes called on a list.                    *)
(***************************************************************************)
TaskIdle ==
    /\ files = << >>
    /\ output_file = "gzip.cmds"
    /\ max_jobs = None
    /\ fs = FreshFs({}, "gzip.cmds")
    /\ gen = NotGenerated

ValidateIdle ==
    /\ suffixes = << >>
    /\ validated = NotValidated

NoResults == [ total |-> 0, compressed |-> 0, skipped |-> 0, errors |-> 0,
               error_files |-> << >> ]

ExecIdle ==
    /\ threads = 1
    /\ exec_pc = "idle"
    /\ num_threads = 0
    /\ uncompressed_files = << >>
    /\ task = << >>
    /\ completed_count = 0
    /\ completed_lock = 0
    /\ results = NoResults

SlurmIdle ==
    /\ slurm_args = << >>
    /\ script = NoScript
    /\ emitted = NotEmitted

NoArgs == [ directory |-> ".", slurm |-> FALSE, auto_run |-> FALSE,
            local_run |-> FALSE, no_chunk |-> FALSE, max_jobs |-> None ]

NoChild == [ launch |-> "pending", st |-> "none", returncode |-> 0 ]
NoMonitor == [ pc |-> "unstarted", polls |-> 0, last |-> "none", failed |-> 0 ]
NotRun == [ returned |-> "pending", message |-> "none" ]

SubmitIdle ==
    /\ response = None
    /\ run_pc = "idle"
    /\ child = NoChild
    /\ monitor = NoMonitor
    /\ run_result = NotRun

CliIdle ==
    /\ args = NoArgs
    /\ exit_code = None
    /\ command_count = 0
    /\ fs0 = fs
    /\ SubmitIdle

InitValidate ==
    /\ pc = "validate_suffixes"
    /\ suffixes \in SeqsUpTo(SuffixUniverse, MaxSuffixes)
    /\ validated = NotValidated
    /\ TaskIdle
    /\ ExecIdle
    /\ SlurmIdle
    /\ CliIdle

CallValidateSuffixes ==
    /\ pc = "validate_suffixes"
    /\ validated' = validate_suffixes(suffixes)
    /\ pc' = "validate_suffixes_returned"
    /\ UNCHANGED << suffixes, taskVars, execVars, slurmVars, cliVars, submitVars >>

NextValidate == CallValidateSuffixes

SpecValidate == InitValidate /\ [][NextValidate]_vars

(***************************************************************************)
(* Specification of generate_task_file called on a list.                   *)
(***************************************************************************)
InitTask ==
    /\ pc = "generate_task_file"
    /\ files \in FileLists
    /\ output_file \in OutputNames
    /\ max_jobs \in Ceilings
    /\ \E d \in SUBSET CounterpartUniverse :
          fs = FreshFs(Range(files) \cup d, output_file)
    /\ gen = NotGenerated
    /\ ValidateIdle
    /\ ExecIdle
    /\ SlurmIdle
    /\ CliIdle

CallGenerateTaskFile ==
    /\ pc = "generate_task_file"
    /\ LET r == generate_task_file(files, output_file, max_jobs, fs) IN
         /\ fs' = r.fs
         /\ gen' = [ path |-> r.path, counts |-> r.counts, chunk |-> r.chunk ]
    /\ pc' = "generate_task_file_returned"
    /\ UNCHANGED << validateVars, files, output_file, max_jobs, execVars, slurmVars,
                    cliVars, submitVars >>

NextTask == CallGenerateTaskFile

SpecTask == InitTask /\ [][NextTask]_vars

(***************************************************************************)
(* execute_gzip_local: the calling thread and the workers of the pool.     *)
(* A task is unsubmitted, queued, in gzip (subprocess.run has not          *)
(* returned), at_lock (waiting for completed_lock), in_lock (counter read, *)
(* not yet written back), done (its future is set) or merged (as_completed *)
(* has yielded it).                                                        *)
(***************************************************************************)
NewTask == [ st |-> "unsubmitted", outcome |-> "none", runs |-> 0, loaded |-> 0,
             future |-> [ raised |-> FALSE, file_path |-> "", success |-> FALSE ] ]

Tasks == 1..Len(uncompressed_files)

Active == { i \in Tasks : task[i].st \in { "gzip", "at_lock", "in_lock" } }

\* the machine's multiprocessing.cpu_count()
CpuCounts == { 1, 2, 16 }

\* lines 297-330: the thread count is resolved and the compressed files are
\* filtered out; with nothing left the function returns at once
ExecCall ==
    /\ exec_pc = "call"
    /\ \E cpu_count \in (IF threads = 0 THEN CpuCounts ELSE { 1 }) :
          num_threads' = resolve_threads(threads, cpu_count)
    /\ uncompressed_files' = uncompressed_of(files)
    /\ task' = [ i \in 1..Len(uncompressed_of(files)) |-> NewTask ]
    /\ results' = initial_results(files)
    /\ completed_count' = 0
    /\ completed_lock' = 0
    /\ exec_pc' = IF Len(uncompressed_of(files)) = 0 THEN "returned" ELSE "submit"
    /\ UNCHANGED << pc, validateVars, taskVars, slurmVars, cliVars, submitVars, threads >>

\* executor.submit(compress_file, file_path) for the next file; after the
\* last one the caller enters the as_completed loop
Submit ==
    /\ exec_pc = "submit"
    /\ \E i \in Tasks :
          /\ task[i].st = "unsubmitted"
          /\ \A j \in Tasks : j < i => task[j].st # "unsubmitted"
          /\ task' = [ task EXCEPT ![i].st = "queued" ]
          /\ exec_pc' = IF i = Len(uncompressed_files) THEN "as_completed" ELSE "submit"
    /\ UNCHANGED << pc, validateVars, taskVars, slurmVars, cliVars, submitVars, threads, num_threads,
                    uncompressed_files, completed_count, completed_lock, results >>

\* a pool that starts nothing more once a task has failed
StartGzip_unless_failed(i) ==
    /\ task[i].st = "queued"
    /\ \A j \in Tasks : j < i => task[j].st \notin { "unsubmitted", "queued" }
    /\ \A j \in Tasks : task[j].outcome \in { "none", "ok" }
    /\ Cardinality(Active) < num_threads
    /\ task' = [ task EXCEPT ![i].st = "gzip", ![i].runs = @ + 1 ]
    /\ UNCHANGED << pc, validateVars, taskVars, slurmVars, cliVars, submitVars, threads, exec_pc, num_threads,
                    uncompressed_files, completed_count, completed_lock, results >>

\* a free worker of the pool takes the oldest queued task and starts gzip
StartGzip(i) ==
    /\ task[i].st = "queued"
    /\ \A j \in Tasks : j < i => task[j].st \notin { "unsubmitted", "queued" }
    /\ Cardinality(Active) < num_threads
    /\ task' = [ task EXCEPT ![i].st = "gzip", ![i].runs = @ + 1 ]
    /\ UNCHANGED << pc, validateVars, taskVars, slurmVars, cliVars, submitVars, threads, exec_pc, num_threads,
                    uncompressed_files, completed_count, completed_lock, results >>

\* subprocess.run returns or raises
GzipExits(i) ==
    /\ task[i].st = "gzip"
    /\ \E o \in GzipOutcomes :
          task' = [ task EXCEPT ![i].st = "at_lock", ![i].outcome = o ]
    /\ UNCHANGED << pc, validateVars, taskVars, slurmVars, cliVars, submitVars, threads, exec_pc, num_threads,
                    uncompressed_files, completed_count, completed_lock, results >>

\* the counter read without waiting for the lock
AcquireLock_unguarded(i) ==
    /\ task[i].st = "at_lock"
    /\ completed_lock' = i
    /\ task' = [ task EXCEPT ![i].st = "in_lock", ![i].loaded = completed_count ]
    /\ UNCHANGED << pc, validateVars, taskVars, slurmVars, cliVars, submitVars, threads, exec_pc, num_threads,
                    uncompressed_files, completed_count, results >>

\* "with completed_lock:" entered and completed_count read
AcquireLock(i) ==
    /\ task[i].st = "at_lock"
    /\ completed_lock = 0
    /\ completed_lock' = i
    /\ task' = [ task EXCEPT ![i].st = "in_lock", ![i].loaded = completed_count ]
    /\ UNCHANGED << pc, validateVars, taskVars, slurmVars, cliVars, submitVars, threads, exec_pc, num_threads,
                    uncompressed_files, completed_count, results >>

\* completed_count written back, the lock released, the tuple returned
ReleaseLock(i) ==
    /\ task[i].st = "in_lock"
    /\ completed_lock = i
    /\ completed_count' = task[i].loaded + 1
    /\ completed_lock' = 0
    /\ task' = [ task EXCEPT ![i].st = "done",
                             ![i].future = compress_file_returns(uncompressed_files[i],
                                                                 task[i].outcome) ]
    /\ UNCHANGED << pc, validateVars, taskVars, slurmVars, cliVars, submitVars, threads, exec_pc, num_threads,
                    uncompressed_files, results >>

\* as_completed yields a finished future and its result is merged; a future
\* holding an exception makes future.result() raise in the caller
Collect(i) ==
    /\ exec_pc = "as_completed"
    /\ task[i].st = "done"
    /\ task' = [ task EXCEPT ![i].st = "merged" ]
    /\ IF task[i].future.raised
       THEN /\ exec_pc' = "raised"
            /\ UNCHANGED results
       ELSE /\ exec_pc' = exec_pc
            /\ results' = merge_result(results, task[i].future)
    /\ UNCHANGED << pc, validateVars, taskVars, slurmVars, cliVars, submitVars, threads, num_threads,
                    uncompressed_files, completed_count, completed_lock >>

\* every future was yielded: the pool is shut down and results returned
ExecReturn ==
    /\ exec_pc = "as_completed"
    /\ \A i \in Tasks : task[i].st = "merged"
    /\ exec_pc' = "returned"
    /\ UNCHANGED << pc, validateVars, taskVars, slurmVars, cliVars, submitVars, threads, num_threads,
                    uncompressed_files, task, completed_count, completed_lock, results >>

ExecStep ==
    \/ ExecCall
    \/ Submit
    \/ \E i \in Tasks : StartGzip(i)
    \/ \E i \in Tasks : GzipExits(i)
    \/ \E i \in Tasks : AcquireLock(i)
    \/ \E i \in Tasks : ReleaseLock(i)
    \/ \E i \in Tasks : Collect(i)
    \/ ExecReturn

\* the path lists the executor is tried on: the sorted sublists of these
ExecPaths == << "/a", "/b", "/b.gz", "/f", "/g" >>

ExecFileLists ==
    { SelectFrom(ExecPaths, S) : S \in { T \in SUBSET Range(ExecPaths) :
                                           Cardinality(T) <= MaxExecFiles } }

ThreadArgs == -1..MaxThreads

InitExec ==
    /\ pc = "execute_gzip_local"
    /\ ValidateIdle
    /\ files \in ExecFileLists
    /\ output_file = "gzip.cmds"
    /\ max_jobs = None
    /\ fs = FreshFs(Range(files), "gzip.cmds")
    /\ gen = NotGenerated
    /\ threads \in ThreadArgs
    /\ exec_pc = "call"
    /\ num_threads = 0
    /\ uncompressed_files = << >>
    /\ task = << >>
    /\ completed_count = 0
    /\ completed_lock = 0
    /\ results = NoResults
    /\ SlurmIdle
    /\ CliIdle

NextExec == ExecStep

SpecExec == InitExec /\ [][NextExec]_vars

\* the same program where every gzip invocation eventually returns and every
\* thread that can take a step eventually takes one
SpecExecLive == InitExec /\ [][NextExec]_vars /\ WF_vars(NextExec)

(***************************************************************************)
(* Specification of generate_slurm_script called, as a library function,   *)
(* on the list the task file was generated from.                           *)
(***************************************************************************)
\* the parameters a caller may supply, in the order main inserts them
SlurmArgUniverse ==
    << << "partition", "long" >>, << "nodes", "2" >>, << "ntasks", "2" >>,
       << "cpus_per_task", "8" >>,
       << "mem", "32G" >>, << "mem", "16GB" >>, << "mem", "8192m" >>,
       << "mem_per_cpu", "4G" >>, << "time", "01:00:00" >>,
       << "output", "my.out" >>, << "output_log", "o.log" >> >>

SlurmArgMaps ==
    { SelectFrom(SlurmArgUniverse, S) :
        S \in { T \in SUBSET Range(SlurmArgUniverse) :
                  /\ Cardinality(T) <= MaxSlurmArgs
                  /\ \A a, b \in T : a[1] = b[1] => a = b } }

SlurmPaths == << "/a", "/b", "/b.gz", "/f" >>

SlurmFileLists ==
    { SelectFrom(SlurmPaths, S) : S \in { T \in SUBSET Range(SlurmPaths) :
                                            Cardinality(T) <= MaxSlurmFiles } }

SlurmCeilings == { None, Some(2) }

InitSlurm ==
    /\ pc = "generate_task_file"
    /\ files \in SlurmFileLists
    /\ output_file = "gzip.cmds"
    /\ max_jobs \in SlurmCeilings
    /\ \E d \in SUBSET { "/a.gz" } :
          fs = FreshFs(Range(files) \cup d, output_file)
    /\ gen = NotGenerated
    /\ ValidateIdle
    /\ ExecIdle
    /\ slurm_args \in SlurmArgMaps
    /\ script = NoScript
    /\ emitted = NotEmitted
    /\ CliIdle

CallGenerateSlurmScript ==
    /\ pc = "generate_task_file_returned"
    /\ LET r == generate_slurm_script(files, slurm_args, fs, script) IN
         /\ fs' = r.fs
         /\ script' = r.script
         /\ emitted' = [ raised |-> r.raised, script_path |-> r.script_path ]
    /\ pc' = "generate_slurm_script_returned"
    /\ UNCHANGED << validateVars, files, output_file, max_jobs, gen, execVars,
                    slurm_args, cliVars, submitVars >>

NextSlurm ==
    \/ CallGenerateTaskFile
    \/ CallGenerateSlurmScript

SpecSlurm == InitSlurm /\ [][NextSlurm]_vars

(***************************************************************************)
(* run_on_slurm: the calling thread, the srun child and the thread running *)
(* monitor_progress.  The monitor is at its while test, in squeue          *)
(* (subprocess.run has not returned), in sleep, or ended.                  *)
(***************************************************************************)
\* the job name squeue is asked for and its output is searched for
monitor_job_name == "gzip-up_compression"

\* what subprocess.Popen(['srun', 'bash', script_path]) may do
PopenOutcomes == { "started", "FileNotFoundError", "OSError" }

\* what one poll of the queue may give: the job name in the output or not,
\* squeue exiting non-zero, squeue missing
SqueueOutcomes == { "listed", "not_listed", "CalledProcessError", "FileNotFoundError" }

\* the outcomes of a poll after which the loop is left by break
EndsPolling == { "not_listed", "CalledProcessError" }

\* what run_on_slurm returns and reports when Popen raises
popen_failed(outcome) ==
    IF outcome = "FileNotFoundError"
    THEN [ returned |-> "False", message |-> "srun command not found" ]
    ELSE [ returned |-> "False", message |-> "Unexpected error" ]

\* a report that tells a finished job by its having exited at all
job_finished_any(returncode) ==
    [ returned |-> "True", message |-> "Job completed successfully" ]

\* what run_on_slurm returns and reports once communicate() has returned
job_finished(returncode) ==
    IF returncode = 0
    THEN [ returned |-> "True", message |-> "Job completed successfully" ]
    ELSE [ returned |-> "False", message |-> "Job failed with return code" ]

\* line 150: the child is started, or Popen raises and run_on_slurm returns
RunPopen ==
    /\ run_pc = "call"
    /\ \E o \in PopenOutcomes :
          IF o = "started"
          THEN /\ child' = [ launch |-> o, st |-> "running", returncode |-> 0 ]
               /\ run_pc' = "start_monitor"
               /\ UNCHANGED run_result
          ELSE /\ child' = [ child EXCEPT !.launch = o ]
               /\ run_result' = popen_failed(o)
               /\ run_pc' = "returned"
    /\ UNCHANGED << pc, validateVars, taskVars, execVars, slurmVars, cliVars, response,
                    monitor >>

\* lines 185-186: the daemon thread is started
RunStartMonitor ==
    /\ run_pc = "start_monitor"
    /\ monitor' = [ monitor EXCEPT !.pc = "while" ]
    /\ run_pc' = "communicate"
    /\ UNCHANGED << pc, validateVars, taskVars, execVars, slurmVars, cliVars, response,
                    child, run_result >>

\* the srun child exits
ChildExits ==
    /\ child.st = "running"
    /\ \E rc \in { 0, 1 } : child' = [ child EXCEPT !.st = "exited", !.returncode = rc ]
    /\ UNCHANGED << pc, validateVars, taskVars, execVars, slurmVars, cliVars, response,
                    run_pc, monitor, run_result >>

\* lines 189-202: communicate() returns once the child has exited, and
\* run_on_slurm returns by the return code
RunCommunicate ==
    /\ run_pc = "communicate"
    /\ child.st = "exited"
    /\ run_result' = job_finished(child.returncode)
    /\ run_pc' = "returned"
    /\ UNCHANGED << pc, validateVars, taskVars, execVars, slurmVars, cliVars, response,
                    child, monitor >>

\* line 155: "while srun_process.poll() is None"
MonitorTest ==
    /\ monitor.pc = "while"
    /\ child.st = "running" => monitor.polls < MaxPolls
    /\ monitor' = [ monitor EXCEPT !.pc = IF child.st = "running" THEN "squeue" ELSE "ended" ]
    /\ UNCHANGED << pc, validateVars, taskVars, execVars, slurmVars, cliVars, response,
                    run_pc, child, run_result >>

\* lines 156-180: squeue returns or raises; a job that is not listed and a
\* non-zero exit of squeue leave the loop, every other outcome goes on to
\* the sleep
MonitorSqueue ==
    /\ monitor.pc = "squeue"
    /\ \E o \in SqueueOutcomes :
          monitor' = [ pc |-> IF o \in EndsPolling THEN "ended" ELSE "sleep",
                       polls |-> monitor.polls + 1,
                       last |-> o,
                       failed |-> monitor.failed
                                  + (IF o \in { "CalledProcessError", "FileNotFoundError" }
                                     THEN 1 ELSE 0) ]
    /\ UNCHANGED << pc, validateVars, taskVars, execVars, slurmVars, cliVars, response,
                    run_pc, child, run_result >>

\* line 182: time.sleep(10) is over
MonitorWakes ==
    /\ monitor.pc = "sleep"
    /\ monitor' = [ monitor EXCEPT !.pc = "while" ]
    /\ UNCHANGED << pc, validateVars, taskVars, execVars, slurmVars, cliVars, response,
                    run_pc, child, run_result >>

InitRun ==
    /\ pc = "run_on_slurm"
    /\ ValidateIdle
    /\ TaskIdle
    /\ ExecIdle
    /\ SlurmIdle
    /\ args = NoArgs
    /\ exit_code = None
    /\ command_count = 0
    /\ fs0 = fs
    /\ response = None
    /\ run_pc = "call"
    /\ child = NoChild
    /\ monitor = NoMonitor
    /\ run_result = NotRun

NextRun ==
    \/ RunPopen
    \/ RunStartMonitor
    \/ ChildExits
    \/ RunCommunicate
    \/ MonitorTest
    \/ MonitorSqueue
    \/ MonitorWakes

SpecRun == InitRun /\ [][NextRun]_vars

(***************************************************************************)
(* Specification of a call of find_files_with_suffixes.                    *)
(***************************************************************************)
\* a tree with files at the top, in a directory, below it, and beside it
\* under a name that begins like the directory's
ScanDisk == { "/a.txt", "/a.txt.gz", "/s/c.txt", "/s/t/d.csv", "/s.csv", "/s/a.txt" }
ScanDirectories == { ".", "s", "/s", "s/t", "nodir" }
ScanSuffixes == { ".txt", ".gz", ".csv", "" }

InitFind ==
    /\ pc = "find_files_with_suffixes"
    /\ suffixes = << >>
    /\ \E value \in SUBSET ScanSuffixes : validated = [ raised |-> "none", value |-> value ]
    /\ files = << >>
    /\ output_file = "gzip.cmds"
    /\ max_jobs = None
    /\ \E d \in SUBSET ScanDisk : fs = FreshFs(d, "gzip.cmds")
    /\ gen = NotGenerated
    /\ ExecIdle
    /\ SlurmIdle
    /\ \E directory \in ScanDirectories : args = [ NoArgs EXCEPT !.directory = directory ]
    /\ exit_code = None
    /\ command_count = 0
    /\ fs0 = fs
    /\ SubmitIdle

CallFindFiles ==
    /\ pc = "find_files_with_suffixes"
    /\ \E outcome \in WalkOutcomes :
          /\ files' = scan_result(args.directory, validated.value, fs.disk, outcome)
          /\ pc' = IF outcome = "raises" THEN "find_files_caught" ELSE "find_files_returned"
    /\ UNCHANGED << validateVars, output_file, max_jobs, fs, gen, execVars, slurmVars,
                    cliVars, submitVars >>

NextFind == CallFindFiles

SpecFind == InitFind /\ [][NextFind]_vars

(***************************************************************************)
(* Specification of main, the command line run.                            *)
(***************************************************************************)
\* lines 262-267: --auto-run without --slurm is an argument error, a missing
\* directory ends the run
CheckArguments ==
    /\ pc = "main"
    /\ IF args.auto_run /\ ~ args.slurm
       THEN pc' = "exited" /\ exit_code' = Some(2)
       ELSE IF ~ isdir(args.directory, fs.disk)
       THEN pc' = "exited" /\ exit_code' = Some(1)
       ELSE pc' = "validate_suffixes" /\ exit_code' = exit_code
    /\ UNCHANGED << validateVars, taskVars, execVars, slurmVars, args, command_count, fs0,
                    submitVars >>

\* lines 272-328: a rejected suffix ends the run; the scan; no file ends the
\* run with 0; an output that exists ends it with 1; the chunking decision
ScanAndCheckOutputs ==
    /\ pc = "validate_suffixes_returned"
    /\ IF validated.raised # "none"
       THEN /\ pc' = "exited"
            /\ exit_code' = Some(1)
            /\ UNCHANGED << files, max_jobs >>
       ELSE LET found == find_files_with_suffixes(args.directory, validated.value, fs.disk) IN
            /\ files' = found
            /\ IF Len(found) = 0
               THEN pc' = "exited" /\ exit_code' = Some(0) /\ UNCHANGED max_jobs
               ELSE IF output_collides(output_file, args.slurm, fs.disk)
               THEN pc' = "exited" /\ exit_code' = Some(1) /\ UNCHANGED max_jobs
               ELSE /\ pc' = "generate_task_file"
                    /\ exit_code' = exit_code
                    /\ max_jobs' = max_jobs_for_chunking(args.max_jobs, args.auto_run,
                                                         args.no_chunk, found)
    /\ UNCHANGED << validateVars, output_file, fs, gen, execVars, slurmVars, args,
                    command_count, fs0, submitVars >>

\* lines 341-353: the commands of the task file are counted; with
\* --local-run execute_gzip_local is called
CountCommands ==
    /\ pc = "generate_task_file_returned"
    /\ command_count' = count_commands(fs.task)
    /\ IF args.local_run
       THEN pc' = "execute_gzip_local" /\ exec_pc' = "call"
       ELSE pc' = "slurm" /\ exec_pc' = exec_pc
    /\ UNCHANGED << validateVars, taskVars, threads, num_threads, uncompressed_files,
                    task, completed_count, completed_lock, results, slurmVars, args,
                    exit_code, fs0, submitVars >>

\* execute_gzip_local has returned to main, or raised through it
LocalRunReturns ==
    /\ pc = "execute_gzip_local"
    /\ exec_pc \in { "returned", "raised" }
    /\ IF exec_pc = "raised"
       THEN pc' = "exited" /\ exit_code' = Some(1)
       ELSE pc' = "slurm" /\ exit_code' = exit_code
    /\ UNCHANGED << validateVars, taskVars, execVars, slurmVars, args, command_count, fs0,
                    submitVars >>

\* what may be typed at the confirmation prompt
Answers == { "yes", " Y ", "YES", "no", "" }

\* lines 362-455: without --slurm the run ends with 0.  With it
\* generate_slurm_script is called with one argument more than its
\* parameters, which raises TypeError before its body runs, and the run ends
\* with the traceback and 1.  Were the call to return, a script that does not
\* exist would end the run with 1, --auto-run would prompt and call
\* run_on_slurm on a yes, and every other path would end with 0.
SlurmSection ==
    /\ pc = "slurm"
    /\ IF ~ args.slurm
       THEN /\ pc' = "exited"
            /\ exit_code' = Some(0)
            /\ UNCHANGED << fs, script, emitted, response, run_pc >>
       ELSE IF SlurmScriptArguments # SlurmScriptParameters
       THEN /\ pc' = "exited"
            /\ exit_code' = Some(1)
            /\ emitted' = [ raised |-> "TypeError", script_path |-> "" ]
            /\ UNCHANGED << fs, script, response, run_pc >>
       ELSE LET r == generate_slurm_script(files, slurm_args, fs, script) IN
            /\ fs' = r.fs
            /\ script' = r.script
            /\ emitted' = [ raised |-> r.raised, script_path |-> r.script_path ]
            /\ IF r.raised # "none" \/ ~ path_exists(r.script_path, r.fs.disk)
               THEN /\ pc' = "exited"
                    /\ exit_code' = Some(1)
                    /\ UNCHANGED << response, run_pc >>
               ELSE IF args.auto_run
               THEN \E answer \in Answers :
                       /\ response' = Some(answer)
                       /\ IF confirms(answer)
                          THEN /\ pc' = "run_on_slurm"
                               /\ run_pc' = "call"
                               /\ exit_code' = exit_code
                          ELSE /\ pc' = "exited"
                               /\ exit_code' = Some(0)
                               /\ run_pc' = run_pc
               ELSE /\ pc' = "exited"
                    /\ exit_code' = Some(0)
                    /\ UNCHANGED << response, run_pc >>
    /\ UNCHANGED << validateVars, files, output_file, max_jobs, gen, execVars,
                    slurm_args, args, command_count, fs0, child, monitor, run_result >>

\* what the scanned directory may hold, and the outputs of an earlier run
CliDataFiles == { "/a.txt", "/a.txt.gz", "/s/c.txt" }
CliOldOutputs == { "/gzip.cmds", "/gzip_slurm.sh" }

CliSuffixLists == { << ".txt" >>, << "txt", ".txt.gz" >>, << ".csv" >>, << "gz" >> }
CliOutputNames == { "gzip.cmds", "out.txt" }
CliDirectories == { ".", "nodir" }
CliCeilings == { None, Some(0), Some(1) }
CliThreads == { 1, 2 }

Init ==
    /\ pc = "main"
    /\ suffixes \in CliSuffixLists
    /\ validated = NotValidated
    /\ files = << >>
    /\ output_file \in CliOutputNames
    /\ max_jobs = None
    /\ \E d \in SUBSET CliDataFiles, o \in SUBSET CliOldOutputs :
          fs = FreshFs(d \cup o, output_file)
    /\ fs0 = fs
    /\ gen = NotGenerated
    /\ threads \in CliThreads
    /\ exec_pc = "idle"
    /\ num_threads = 0
    /\ uncompressed_files = << >>
    /\ task = << >>
    /\ completed_count = 0
    /\ completed_lock = 0
    /\ results = NoResults
    /\ SlurmIdle
    /\ args \in [ directory : CliDirectories, slurm : BOOLEAN, auto_run : BOOLEAN,
                  local_run : BOOLEAN, no_chunk : BOOLEAN, max_jobs : CliCeilings ]
    /\ exit_code = None
    /\ command_count = 0
    /\ SubmitIdle

Next ==
    \/ CheckArguments
    \/ CallValidateSuffixes
    \/ ScanAndCheckOutputs
    \/ CallGenerateTaskFile
    \/ CountCommands
    \/ ExecStep
    \/ LocalRunReturns
    \/ SlurmSection

Spec == Init /\ [][Next]_vars

(***************************************************************************)
(* Properties of validate_suffixes (under SpecValidate).                   *)
(***************************************************************************)
RejectedInputs ==
    { "gz", ".gz", "bz2", ".bz2", "xz", ".xz", "zip", ".zip",
      "tar", ".tar", "7z", ".7z", "rar", ".rar" }

ValidateReturned == pc = "validate_suffixes_returned"

\* C7: a list holding one of the fourteen rejected spellings at any position
\* makes validate_suffixes raise, and a returned set holds no compressed-format
\* suffix.
C7_RejectsCompressedSuffixes ==
    ValidateReturned =>
        /\ (\E i \in 1..Len(suffixes) : suffixes[i] \in RejectedInputs)
              => validated.raised # "none"
        /\ validated.raised = "none"
              => validated.value \cap compression_formats = {}

\* a rejected spelling in the last place, after accepted ones
C7_Witness ==
    /\ ValidateReturned
    /\ Len(suffixes) = 3
    /\ suffixes[1] = "txt" /\ suffixes[2] = ".tar.gz" /\ suffixes[3] = "rar"
    /\ validated.raised = "already_compressed"

\* the suffix with its dot
Dotted(s) == IF Len(s) > 0 /\ SubSeq(s, 1, 1) = "." THEN s ELSE "." \o s

\* C8: for a list without rejected spellings validate_suffixes returns the set
\* of the dotted inputs; txt, .txt and the list .txt, txt, .txt all give
\* {.txt}; the empty list gives the empty set.
C8_NormalizesAndDeduplicates ==
    ValidateReturned =>
        /\ (\A i \in 1..Len(suffixes) : suffixes[i] \notin RejectedInputs)
              => /\ validated.raised = "none"
                 /\ validated.value = { Dotted(suffixes[i]) : i \in 1..Len(suffixes) }
        /\ suffixes \in { << "txt" >>, << ".txt" >>, << ".txt", "txt", ".txt" >> }
              => validated = [ raised |-> "none", value |-> { ".txt" } ]
        /\ suffixes = << >>
              => validated = [ raised |-> "none", value |-> {} ]

\* the same suffix three times, with and without its dot
C8_Witness ==
    /\ ValidateReturned
    /\ suffixes = << ".txt", "txt", ".txt" >>
    /\ validated.raised = "none"
    /\ Cardinality(validated.value) = 1

(***************************************************************************)
(* Properties of the task file (under SpecTask).                           *)
(***************************************************************************)
TaskReturned == pc = "generate_task_file_returned"

\* skipped by the generator: already compressed, or its counterpart exists
SkipEligible(p) == endswith(p, ".gz") \/ path_exists(gz_counterpart(p), fs.disk)

EligibleCount == Cardinality({ i \in 1..Len(files) : ~ SkipEligible(files[i]) })

\* the files left once those already ending in .gz are taken out
NotSelfSkipped == Cardinality({ i \in 1..Len(files) : ~ endswith(files[i], ".gz") })

\* C1: with a ceiling C >= 1 and more than C files, the task file has at most
\* C lines and its lines hold as many gzip commands as there are eligible
\* files.
C1_ChunkedFileFitsCeiling ==
    (/\ TaskReturned
     /\ max_jobs # None
     /\ max_jobs[1] >= 1
     /\ Len(files) > max_jobs[1])
    => /\ Len(fs.task) <= max_jobs[1]
       /\ Len(gen.chunk.sizes) = Len(fs.task)
       /\ SumSeq(gen.chunk.sizes) = EligibleCount

\* four files under a ceiling of 2, one of them skipped, two lines written,
\* one of which holds two commands
C1_Witness ==
    /\ TaskReturned
    /\ max_jobs = Some(2)
    /\ Len(files) = 4
    /\ EligibleCount = 3
    /\ Len(fs.task) = 2
    /\ \E k \in 1..Len(gen.chunk.sizes) : gen.chunk.sizes[k] = 2

\* C2: without a ceiling, or with at most C files left after the self-skipped
\* ones are taken out, every line holds one command and there is one line for
\* each eligible file.
C2_OneCommandPerLine ==
    (/\ TaskReturned
     /\ \/ max_jobs = None
        \/ NotSelfSkipped <= max_jobs[1])
    => /\ \A k \in 1..Len(gen.chunk.sizes) : gen.chunk.sizes[k] = 1
       /\ Len(fs.task) = EligibleCount

\* the pieces of all lines split on "; "
RECURSIVE Pieces(_)
Pieces(lines) ==
    IF Len(lines) = 0 THEN << >> ELSE split(lines[1], "; ") \o Pieces(Tail(lines))

IsGzipCommand(piece) ==
    /\ Len(piece) >= 7
    /\ startswith(piece, "gzip '")
    /\ endswith(piece, "'")

CommandPath(piece) == SubSeq(piece, 7, Len(piece) - 1)

\* every piece is a gzip command on a listed path that is not skip-eligible,
\* and no two pieces name the same path
RoundTrips ==
    LET ps == Pieces(fs.task) IN
    /\ \A i \in 1..Len(ps) :
          /\ IsGzipCommand(ps[i])
          /\ CommandPath(ps[i]) \in Range(files)
          /\ ~ SkipEligible(CommandPath(ps[i]))
    /\ \A i, j \in 1..Len(ps) :
          (i # j /\ IsGzipCommand(ps[i]) /\ IsGzipCommand(ps[j]))
             => CommandPath(ps[i]) # CommandPath(ps[j])

HoldsSeparator(p) == Len(split(p, "; ")) > 1

\* C3 as stated: the round trip for every list of distinct paths.
C3_RoundTripEveryPath == TaskReturned => RoundTrips

\* C3 amended: the round trip for lists of distinct paths none of which holds
\* the separator "; ".
C3_RoundTripSeparatorFreePaths ==
    (TaskReturned /\ \A i \in 1..Len(files) : ~ HoldsSeparator(files[i]))
    => RoundTrips

\* a chunked file of separator-free paths with a skipped counterpart file and
\* a line of two commands
C3_Witness ==
    /\ TaskReturned
    /\ \A i \in 1..Len(files) : ~ HoldsSeparator(files[i])
    /\ gen.chunk.chunked
    /\ \E i \in 1..Len(files) : path_exists(gz_counterpart(files[i]), fs.disk)
    /\ \E k \in 1..Len(fs.task) : Len(split(fs.task[k], "; ")) = 2


(***************************************************************************)
(* Properties of execute_gzip_local (under SpecExec).                      *)
(***************************************************************************)
ExecReturned == exec_pc = "returned"

\* C5: whatever the input list, the thread count and the gzip outcomes, the
\* result execute_gzip_local returns has compressed + skipped + errors = total
\* and total is the length of the input list.
C5_CountsAddUp ==
    ExecReturned =>
        /\ results.total = Len(files)
        /\ results.compressed + results.skipped + results.errors = results.total

C5_Witness ==
    /\ ExecReturned
    /\ results.compressed >= 1
    /\ results.skipped >= 1
    /\ results.errors >= 1
    /\ num_threads >= 2

Failed(i) == task[i].outcome # "ok"

RecordedFailed(i) == uncompressed_files[i] \in Range(results.error_files)

\* C6: a failed gzip invocation (non-zero exit, or gzip missing) is recorded
\* for its own file only.  Under every interleaving no exception reaches the
\* caller, and at return every dispatched file was attempted exactly once and
\* is recorded as failed exactly when its own invocation failed, so that no
\* file's record depends on the outcome of another's.
C6_FailureStaysWithItsFile ==
    /\ exec_pc # "raised"
    /\ ExecReturned =>
          /\ \A i \in Tasks : task[i].runs = 1 /\ (RecordedFailed(i) <=> Failed(i))
          /\ results.errors = Cardinality({ i \in Tasks : Failed(i) })
          /\ results.compressed = Cardinality({ i \in Tasks : ~ Failed(i) })
          /\ Len(results.error_files) = results.errors

C6_Witness ==
    /\ ExecReturned
    /\ num_threads >= 2
    /\ \E i, j, k \in Tasks :
          /\ task[i].outcome = "FileNotFoundError"
          /\ task[j].outcome = "CalledProcessError"
          /\ task[k].outcome = "ok"
          /\ results.error_files = << uncompressed_files[j], uncompressed_files[i] >>


(***************************************************************************)
(* Properties of generate_slurm_script (under SpecSlurm).                  *)
(***************************************************************************)
ScriptEmitted ==
    /\ pc = "generate_slurm_script_returned"
    /\ emitted.script_path = script_path

\* C9: the array directive of an emitted script spans 1..N where N is the
\* number of non-empty, non-comment lines of the task file on disk when the
\* script is emitted, whatever the file list and the ceiling.
C9_ArraySpansTaskFileLines ==
    ScriptEmitted => script.array = "1-" \o FormatNat(count_commands(fs.task))

\* the defaults the emitter is to apply to the parameters the user left unset
StatedDefaults ==
    [ partition |-> "short", ntasks |-> "1", cpus_per_task |-> "1",
      mem_per_cpu |-> "1G", time |-> "02:00:00" ]

\* C10: an emitted script carries, for each of partition, ntasks,
\* cpus-per-task, mem-per-cpu and time, the value the user supplied for that
\* very parameter, and otherwise partition=short, ntasks=1, cpus-per-task=1,
\* mem-per-cpu=1G and time=02:00:00.
C10_StatedDefaultsUnlessSupplied ==
    ScriptEmitted =>
        \A k \in DOMAIN StatedDefaults :
            script[k] = dict_get(slurm_args, k, StatedDefaults[k])

(***************************************************************************)
(* Properties of main (under Spec).                                        *)
(***************************************************************************)
Exited == pc = "exited"

\* the task-file path, or with --slurm gzip_slurm.sh, was there at the start
CollidesAtStart ==
    \/ abspath(output_file) \in fs0.disk
    \/ args.slurm /\ abspath("gzip_slurm.sh") \in fs0.disk

\* no artifact was created or modified
NothingWritten ==
    /\ fs = fs0
    /\ script = NoScript

\* the arguments were accepted and the scan found no matching file
ScanFoundNothing ==
    /\ validated # NotValidated
    /\ validated.raised = "none"
    /\ files = << >>

CounterpartSkipped ==
    SelectFrom(files, { p \in Range(files) :
                          ~ endswith(p, ".gz") /\ path_exists(gz_counterpart(p), fs.disk) })

AlreadyCompressed == { i \in 1..Len(files) : endswith(files[i], ".gz") }

\* C11: a file ending in .gz only adds to the already-compressed counter and
\* leaves no log entry; a file whose <path>.gz exists leaves exactly the line
\* "file <path> skipped because <path>.gz already exists"; the skip log
\* <task_file>.skipped.log is written if and only if there was such a skip,
\* with one line per skip in input order.  Three files of which one ends in
\* .gz and none has a counterpart, without a ceiling, give 2 task lines and no
\* skip log.
C11_SkipLogHoldsCounterpartSkips ==
    TaskReturned =>
        /\ gen.counts.skipped_already_compressed_count = Cardinality(AlreadyCompressed)
        /\ gen.counts.skipped_existing_gz_count = Len(CounterpartSkipped)
        /\ fs.log_opens > 0 <=> Len(CounterpartSkipped) > 0
        /\ skipped_log_path(gen.path) \in fs.disk <=> Len(CounterpartSkipped) > 0
        /\ fs.log = [ k \in 1..Len(CounterpartSkipped) |-> skip_message(CounterpartSkipped[k]) ]
        /\ (/\ Len(files) = 3
            /\ Cardinality(AlreadyCompressed) = 1
            /\ Len(CounterpartSkipped) = 0
            /\ max_jobs = None)
           => Len(fs.task) = 2 /\ fs.log_opens = 0

\* a list with a .gz file and two counterpart skips, the second listed first
C11_Witness ==
    /\ TaskReturned
    /\ Cardinality(AlreadyCompressed) = 1
    /\ fs.log = << skip_message("/b"), skip_message("/a") >>
    /\ Len(fs.task) >= 1


(***************************************************************************)
(* Further properties of main (under Spec).                                *)
(***************************************************************************)
\* --auto-run without --slurm
ArgumentError == args.auto_run /\ ~ args.slurm

\* the directory given is neither the working directory nor one that holds a
\* file
DirectoryMissing ==
    /\ abspath(args.directory) # "/"
    /\ \A f \in fs0.disk : ~ startswith(f, abspath(args.directory) \o "/")

SuffixRejected == \E i \in 1..Len(suffixes) : suffixes[i] \in RejectedInputs

\* no file below the directory has a name ending in one of the dotted suffixes
NoMatchingFile ==
    \A f \in walked(args.directory, fs0.disk) :
        \A i \in 1..Len(suffixes) : ~ endswith(basename(f), Dotted(suffixes[i]))

PastGeneration ==
    /\ pc \in { "exited", "run_on_slurm" }
    /\ gen # NotGenerated

YesAnswers == { "yes", " Y ", "YES" }

\* C13: a run with --slurm --auto-run that gets past the generation of the
\* task file has written task file and script, has prompted, and has invoked
\* run_on_slurm if and only if the answer, lower-cased and stripped, is yes or
\* y.
C13_SubmitsExactlyOnYes ==
    (PastGeneration /\ args.slurm /\ args.auto_run) =>
        /\ fs.task_opens >= 1
        /\ script.opens = 1
        /\ response # None
        /\ run_pc # "idle" <=> (response # None /\ response[1] \in YesAnswers)


(***************************************************************************)
(* Properties of run_on_slurm (under SpecRun).                             *)
(***************************************************************************)
RunReturned == run_pc = "returned"

PollingOver == monitor.pc \in { "unstarted", "ended" }

\* C15: under every interleaving of the wait on the srun child with the
\* squeue polling thread, once run_on_slurm has returned from the wait the
\* polling loop has terminated.
C15_PollingOverAtReturn ==
    (RunReturned /\ child.launch = "started") => PollingOver


(***************************************************************************)
(* Properties of find_files_with_suffixes (under SpecFind).                *)
(***************************************************************************)
FindReturned == pc \in { "find_files_returned", "find_files_caught" }

\* the file f of the disk lies under the directory given to the scan
UnderRoot(f) ==
    LET top == abspath(args.directory)
        below == IF top = "/" THEN top ELSE top \o "/"
    IN  /\ Len(f) > Len(below)
        /\ SubSeq(f, 1, Len(below)) = below

\* the name of f ends with one of the suffixes asked for
NameMatches(f) ==
    \E suffix \in validated.value :
       \E k \in 1..Len(f) :
          /\ SubSeq(f, k, k) = "/"
          /\ \A m \in (k + 1)..Len(f) : SubSeq(f, m, m) # "/"
          /\ Len(f) - k >= Len(suffix)
          /\ SubSeq(f, Len(f) - Len(suffix) + 1, Len(f)) = suffix

\* C16: find_files_with_suffixes returns, sorted and without duplicates,
\* exactly the files under the root whose name ends with one of the
\* suffixes, so nothing for an empty set of suffixes; when the traversal
\* raises it returns the empty list.
C16_ScanReturnsSortedMatches ==
    /\ pc \in { "find_files_with_suffixes", "find_files_returned", "find_files_caught" }
    /\ pc = "find_files_caught" => files = << >>
    /\ pc = "find_files_returned" =>
          /\ \A i, j \in 1..Len(files) : i < j => StrLess(files[i], files[j])
          /\ \A i \in 1..Len(files) :
                /\ startswith(files[i], args.directory)
                /\ abspath(files[i]) \in fs.disk
          /\ \A f \in fs.disk :
                (UnderRoot(f) /\ NameMatches(f))
                   <=> \E i \in 1..Len(files) : abspath(files[i]) = f
          /\ validated.value = {} => files = << >>

\* two matching files, one of them two directories down, and one left out
C16_Witness ==
    /\ pc = "find_files_returned"
    /\ args.directory = "s"
    /\ fs.disk = ScanDisk
    /\ validated.value = { ".txt", ".csv" }
    /\ files = << "s/a.txt", "s/c.txt", "s/t/d.csv" >>


\* the scan found files, and each of them ends in .gz or had its .gz
\* counterpart on disk when the run started
EveryFoundFileSkipEligible ==
    /\ Len(files) >= 1
    /\ \A i \in 1..Len(files) :
          \/ endswith(files[i], ".gz")
          \/ abspath(gz_counterpart(files[i])) \in fs0.disk

\* one of the two "Skipped ..." warnings of generate_task_file was printed
SkipWarned ==
    gen.counts.skipped_already_compressed_count + gen.counts.skipped_existing_gz_count > 0

\* C17: a run whose scan finds files that are all skip-eligible writes a task
\* file of zero lines, warns, and ends without an error code, with or without
\* --slurm.
C17_AllSkippedIsValid ==
    (Exited /\ gen # NotGenerated /\ EveryFoundFileSkipEligible) =>
        /\ fs.task_opens >= 1
        /\ fs.task = << >>
        /\ SkipWarned
        /\ exit_code = Some(0)


(***************************************************************************)
(* Order and grouping of the task file (under SpecTask).                   *)
(***************************************************************************)
\* the listed files that are not skip-eligible, in the order of the list
EligibleFiles ==
    SelectFrom(files, { p \in Range(files) : ~ SkipEligible(p) })

\* the commands of the eligible files, in the order of the list
EligibleCommands == [ i \in 1..Len(EligibleFiles) |-> gzip_cmd(EligibleFiles[i]) ]

\* C18: for every list and ceiling the commands of the task file, read line
\* by line and within a line from left to right, are the commands of the
\* eligible files in the order of the input list, and no line is empty.
C18_OrderPreserved ==
    TaskReturned =>
        /\ join("; ", fs.task) = join("; ", EligibleCommands)
        /\ \A k \in 1..Len(fs.task) : fs.task[k] # ""
        /\ SumSeq(gen.chunk.sizes) = Len(EligibleFiles)

\* a chunked file of two lines, the first holding two commands, with a
\* skipped file among the four listed
C18_Witness ==
    /\ TaskReturned
    /\ gen.chunk.chunked
    /\ Len(files) = 4
    /\ Len(EligibleFiles) = 3
    /\ Len(fs.task) = 2
    /\ fs.task[1] = gzip_cmd(EligibleFiles[1]) \o "; " \o gzip_cmd(EligibleFiles[2])
    /\ fs.task[2] = gzip_cmd(EligibleFiles[3])


\* generate_chunked_task_file wrote the task file
Chunked == TaskReturned /\ gen.chunk.chunked

\* C19: when chunking applies, every line of the task file but the last holds
\* exactly commands_per_line commands and the last holds between 1 and
\* commands_per_line, as grouping after the removal of the skip-eligible
\* files gives.
C19_FullGroupsButLast ==
    Chunked =>
        LET sizes == gen.chunk.sizes
            commands_per_line == gen.chunk.commands_per_job
        IN  /\ Len(sizes) = Len(fs.task)
            /\ \A k \in 1..(Len(sizes) - 1) : sizes[k] = commands_per_line
            /\ Len(sizes) > 0 =>
                  /\ sizes[Len(sizes)] >= 1
                  /\ sizes[Len(sizes)] <= commands_per_line

\* C20: the chunk count generate_chunked_task_file returns is the number of
\* lines it wrote to the task file, for every list and every ceiling of at
\* least 1.
C20_ReturnedCountIsLinesWritten ==
    (Chunked /\ max_jobs[1] >= 1) => gen.chunk.actual_jobs = Len(fs.task)


\* the line count computed from commands_per_job as the retry loop left it
ComputedLines ==
    PyFloorDiv(Len(files) + gen.chunk.commands_per_job - 1, gen.chunk.commands_per_job)

\* C21: for every integer ceiling that reaches the chunker, a chunked task
\* file is written only if the line count computed after the retry loop is
\* within the ceiling; otherwise the chunker fails and writes nothing, so no
\* chunked file has more lines than the ceiling.
C21_OversizedChunkingFails ==
    (TaskReturned /\ gen.chunk.chunked) =>
        /\ ComputedLines <= max_jobs[1]
        /\ Len(fs.task) <= max_jobs[1]


(***************************************************************************)
(* Writers and readers of the task file within one run (under Spec).       *)
(***************************************************************************)
\* the local executor or the Slurm emitter has been entered
ReaderStarted == exec_pc # "idle" \/ emitted # NotEmitted

\* C22: in one run the task file is opened for writing exactly once and its
\* skip log at most once, with or without chunking, and the generator has
\* returned before the local executor or the Slurm emitter starts.
C22_TaskFileWrittenOnce ==
    /\ ReaderStarted => gen # NotGenerated
    /\ gen # NotGenerated =>
          /\ fs.task_opens = 1
          /\ fs.log_opens <= 1
    /\ gen = NotGenerated => fs.task_opens = 0 /\ fs.log_opens = 0


(***************************************************************************)
(* Scheduling of execute_gzip_local (under SpecExec).                      *)
(***************************************************************************)
\* compress_file has returned for task i
Completed(i) == task[i].st \in { "done", "merged" }

\* C23: no result is merged into the counters of results before every
\* dispatched task has completed.
C23_MergeAfterAllComplete ==
    (\E i \in Tasks : task[i].st = "merged") => \A j \in Tasks : Completed(j)


\* C24: completed_count is read and written only by the worker holding
\* completed_lock, which one worker holds at a time; it counts exactly the
\* tasks whose compress_file has returned, successful or not, so it never
\* exceeds the number of dispatched files and equals it once the pool has
\* drained; the counters of results count the futures the calling thread
\* has merged.
C24_CounterCountsCompletedTasks ==
    exec_pc \notin { "idle", "call" } =>
        /\ \A i \in Tasks : task[i].st = "in_lock" <=> completed_lock = i
        /\ \A i \in Tasks : task[i].st = "in_lock" => task[i].loaded = completed_count
        /\ completed_count = Cardinality({ i \in Tasks : Completed(i) })
        /\ completed_count <= Len(uncompressed_files)
        /\ exec_pc = "returned" => completed_count = Len(uncompressed_files)
        /\ results.compressed + results.errors
              = Cardinality({ i \in Tasks : task[i].st = "merged" })

\* two workers, one inside the lock and one waiting for it, after a third
\* task has been counted
C24_Witness ==
    /\ exec_pc = "as_completed"
    /\ num_threads = 2
    /\ completed_count = 1
    /\ \E i, j \in Tasks : task[i].st = "in_lock" /\ task[j].st = "at_lock"


\* the tasks whose gzip invocation is in progress
InGzip == { i \in Tasks : task[i].st = "gzip" }

\* C25: a requested thread count of 0 is resolved to min(CPU count, 8), a
\* negative one to 1, a positive one is kept; at every moment at most the
\* resolved number of gzip invocations are in progress; no dispatched file
\* is invoked twice and at the return each has been invoked once.
C25_PoolBound ==
    exec_pc \notin { "idle", "call" } =>
        /\ threads = 0 => num_threads \in { PyMin(c, 8) : c \in CpuCounts }
        /\ threads < 0 => num_threads = 1
        /\ threads > 0 => num_threads = threads
        /\ Cardinality(InGzip) <= num_threads
        /\ \A i \in Tasks : task[i].runs = (IF task[i].st \in { "unsubmitted", "queued" }
                                            THEN 0 ELSE 1)
        /\ exec_pc = "returned" => \A i \in Tasks : task[i].runs = 1

\* auto-detection on a machine of 2 CPUs: two invocations in progress and a
\* third file waiting for a worker
C25_Witness ==
    /\ threads = 0
    /\ num_threads = 2
    /\ Cardinality(InGzip) = 2
    /\ \E i \in Tasks : task[i].st = "queued"


(***************************************************************************)
(* Termination of execute_gzip_local (under SpecExecLive).                 *)
(***************************************************************************)
\* every dispatched file has had its gzip invocation and its result merged
AllAttempted == \A i \in Tasks : task[i].runs = 1 /\ task[i].st = "merged"

\* C26: if every gzip invocation eventually returns, execute_gzip_local
\* eventually returns its results, and only after every dispatched file has
\* been attempted, whatever number of tasks failed.
C26_ReturnsAfterAllAttempted ==
    /\ <>(exec_pc = "returned")
    /\ [](exec_pc = "returned" =>
            /\ AllAttempted
            /\ results.compressed + results.errors = Len(uncompressed_files))

\* returned with three files dispatched, the first two of which failed
C26_Witness ==
    /\ exec_pc = "returned"
    /\ Len(uncompressed_files) = 3
    /\ AllAttempted
    /\ task[1].outcome = "CalledProcessError"
    /\ task[2].outcome = "FileNotFoundError"
    /\ task[3].outcome = "ok"
    /\ results.errors = 2


(***************************************************************************)
(* The polling thread of run_on_slurm (under SpecRun).                     *)
(***************************************************************************)
PollFailures == { "CalledProcessError", "FileNotFoundError" }

\* C27: once a status poll has failed the polling thread makes no further
\* poll, the failed poll being its last one; the srun child is left alone
\* and the value returned follows the child's exit code.
C27_FailedPollIsTheLast ==
    /\ monitor.failed >= 1 =>
          /\ monitor.failed = 1
          /\ monitor.last \in PollFailures
          /\ monitor.pc # "squeue"
    /\ (RunReturned /\ child.launch = "started") =>
          /\ child.st = "exited"
          /\ run_result.returned = "True" <=> child.returncode = 0


(***************************************************************************)
(* The task file named in the script (under SpecSlurm).                    *)
(***************************************************************************)
\* C28: the task file an emitted script reads its command line from is the
\* task file generated in the same run, whatever Slurm parameters were
\* supplied, an output-log name among them.
C28_ScriptReadsGeneratedTaskFile ==
    ScriptEmitted =>
        /\ gen # NotGenerated
        /\ abspath(script.task_file) = gen.path


(***************************************************************************)
(* Task file and local run of the same invocation (under Spec).            *)
(***************************************************************************)
\* the files gzip was invoked for by execute_gzip_local
Invoked == { uncompressed_files[i] : i \in { j \in Tasks : task[j].runs >= 1 } }

\* the files that have a command in the task file
Commanded ==
    LET ps == Pieces(fs.task) IN { CommandPath(ps[i]) : i \in 1..Len(ps) }

\* the listed files that are not compressed but whose counterpart was there
CounterpartExists ==
    { f \in Range(files) : ~ endswith(f, ".gz") /\ abspath(f \o ".gz") \in fs0.disk }

\* C29: once the local run of an invocation has returned, the files gzip was
\* invoked for include every file that has a command in the task file, and
\* the others are exactly the files not ending in .gz whose .gz counterpart
\* exists.
C29_LocalRunCoversTaskFile ==
    (gen # NotGenerated /\ exec_pc = "returned") =>
        /\ Commanded \subseteq Invoked
        /\ Invoked \ Commanded = CounterpartExists

\* two files found, one with its counterpart on disk: one command, two
\* invocations
C29_Witness ==
    /\ gen # NotGenerated
    /\ exec_pc = "returned"
    /\ files = << "./a.txt", "./s/c.txt" >>
    /\ Commanded = { "./s/c.txt" }
    /\ Invoked = { "./a.txt", "./s/c.txt" }


\* C30: the job name written into the job-name directive of an emitted
\* script, unless the caller supplied one, is the name the polling thread of
\* run_on_slurm filters the queue by.
C30_PolledNameIsScriptName ==
    (ScriptEmitted /\ \A i \in 1..Len(slurm_args) : slurm_args[i][1] # "job_name")
    => script.job_name = monitor_job_name

====
